---- MODULE Spec2Model ----
(***************************************************************************)
(* Model of the prefix cache of oxide (src/src/inference/prefix_cache.rs):  *)
(* PrefixCache with its hash table, its access_order vector and its byte   *)
(* accounting, driven by insert / touch / get / clear / stats.             *)
(*                                                                         *)
(* A token vector Vec<u32> is represented by its length, the only thing    *)
(* the cache reads of it (tokens.len()).  CachedPrefix.last_access         *)
(* (Instant::now()) is written once and never read; it is left out.        *)
(* usize arithmetic cannot wrap here: every sum is bounded by              *)
(* memory_budget_bytes + 4 * len + 1024, far below 2^64.                   *)
(***************************************************************************)
EXTENDS Integers, Sequences, FiniteSets, TLC

\* ---- bounds of the model -------------------------------------------------
NumKeys == 3
\* longest string handed to CacheKey::new
MaxStrLen == 1
\* readers that hold the result of a lookup
NumReaders == 2
\* allocations the heap has room for
HeapSlots == 4
\* blocks of the Block Store's pool
NumBlocks == 2
\* requests submitted to the Dynamic Batcher
MaxRequests == 3
\* threads calling SimdDispatch::init and SimdDispatch::get
NumThreads == 2

\* ---- inputs --------------------------------------------------------------
\* memory_budget_mb values a PrefixCacheConfig is built with
BudgetsMb == {1}
\* tokens.len() of the inserted prefixes: footprints of (just under) a third,
\* a half, exactly the whole, and more than the whole of a 1 MiB budget
TokenLens == {87040, 130816, 261888, 262144}
\* number of CachedLayer values handed to insert
KvLayerCounts == {0, 1}

None == [none |-> TRUE]

\* CacheKey values (three u64 hashes)
CacheKey == [prompt_hash : 1..NumKeys, system_hash : {0}, model_config_hash : {0}]

\* ---- helpers on Vec and HashMap -----------------------------------------
Range(seq) == {seq[i] : i \in 1..Len(seq)}

\* Vec::remove(pos), pos counted from 1
RemoveAt(seq, pos) == [i \in 1..(Len(seq) - 1) |-> IF i < pos THEN seq[i] ELSE seq[i + 1]]

\* iter().position(|k| k == key): index of the first occurrence, 0 for None
Position(seq, key) ==
  IF key \in Range(seq)
  THEN CHOOSE i \in 1..Len(seq) : seq[i] = key /\ \A j \in 1..(i - 1) : seq[j] # key
  ELSE 0

\* the sequence without any occurrence of the keys in S
RECURSIVE Without(_, _)
Without(seq, S) ==
  IF seq = <<>> THEN <<>>
  ELSE IF Head(seq) \in S THEN Without(Tail(seq), S)
       ELSE <<Head(seq)>> \o Without(Tail(seq), S)

MapInsert(map, key, value) ==
  [k \in (DOMAIN map) \cup {key} |-> IF k = key THEN value ELSE map[k]]

MapRemove(map, key) == [k \in (DOMAIN map) \ {key} |-> map[k]]

EmptyMap == [k \in {} |-> None]

SaturatingSub(a, b) == IF a >= b THEN a - b ELSE 0

\* tokens.len() * 4 + 1024
EstimatedSize(tokens) == tokens * 4 + 1024

\* ---- state ---------------------------------------------------------------
VARIABLES
  config,               \* PrefixCacheConfig
  cache,                \* HashMap<CacheKey, Arc<CachedPrefix>>
  access_order,         \* Vec<CacheKey>, oldest first
  current_memory_bytes,
  memory_budget_bytes,
  last,                 \* the last call: operation, arguments, returned value
  pre,                  \* the fields of the cache before the last call
  recency,              \* history: the cached keys by last insert or touch, oldest first
  protect,              \* history: the last touched entry and the entries staler than it
  key_in,               \* CacheKey::new: the two argument triples compared
  key_out,              \* CacheKey::new: the two keys built from them
  heap,                 \* the Arc<CachedPrefix> allocations: value, strong count, live
  table_arc,            \* for each key of the table, the allocation its Arc points to
  held,                 \* for each reader, the Arc a lookup gave it and what it read there
  free_list,            \* Block Store: the free blocks
  block_tables,         \* Paged KV Cache: block table and valid positions per active sequence
  mid_step,             \* the sequences scheduled in the current batch round
  sched_order,          \* the active sequences, least recently scheduled first
  plast,                \* the last call on the Paged KV Cache and its result
  ppre,                 \* block tables, free list and round before that call
  queue,                \* Dynamic Batcher: the pending queue, oldest submission first
  req_state,            \* the state of each request handle
  delivered,            \* the terminal outcomes each handle has received
  need,                 \* the blocks each request needs to run
  retries,              \* the rounds each queued request was skipped in
  blast,                \* the last call on the Dynamic Batcher
  SIMD_DISPATCH,        \* static OnceLock<SimdDispatch>: the value, None until set
  simd_once,            \* the OnceLock's state: incomplete, running, complete
  simd_thread,          \* each thread's position in init or get and what it returned
  simd_host,            \* the build target and the CPU the process runs on
  simd_first,           \* history: the value first stored and the call that stored it
  simd_probe            \* recommended_simd, when it was the last call: its argument and result

keyVars == <<key_in, key_out>>

arcVars == <<heap, table_arc, held>>

pagedVars == <<free_list, block_tables, mid_step, sched_order, plast, ppre>>

batchVars == <<queue, req_state, delivered, need, retries, blast>>

\* the state outside the PrefixCache and its callers' records
simdVars == <<SIMD_DISPATCH, simd_once, simd_thread, simd_host, simd_first, simd_probe>>

others == <<keyVars, arcVars, pagedVars, batchVars, simdVars>>

vars == <<config, cache, access_order, current_memory_bytes, memory_budget_bytes,
          last, pre, recency, protect, others>>

NoCall == [op |-> "new", key |-> None, tokens |-> 0, kv |-> 0,
           result |-> None, evicted |-> <<>>]

NoProtect == [key |-> None, stale |-> {}]

\* nothing but the PrefixCache is in use
IdleKeys == key_in = None /\ key_out = None

\* no allocation is tracked
IdleArcs == heap = <<>> /\ table_arc = EmptyMap /\ held = <<>>

\* no Paged KV Cache is in use
IdlePaged ==
  /\ free_list = <<>> /\ block_tables = EmptyMap /\ mid_step = {}
  /\ sched_order = <<>> /\ plast = None /\ ppre = None

\* no Dynamic Batcher is in use
IdleBatch ==
  /\ queue = <<>> /\ req_state = <<>> /\ delivered = <<>>
  /\ need = <<>> /\ retries = <<>> /\ blast = None

\* SimdDispatch is not in use
IdleSimd ==
  /\ SIMD_DISPATCH = None /\ simd_once = "incomplete" /\ simd_thread = <<>>
  /\ simd_host = None /\ simd_first = None /\ simd_probe = None

IdleOthers == IdleKeys /\ IdleArcs /\ IdlePaged /\ IdleBatch /\ IdleSimd

\* PrefixCache::new
New(cfg) ==
  [config |-> cfg,
   cache |-> EmptyMap,
   access_order |-> <<>>,
   current_memory_bytes |-> 0,
   memory_budget_bytes |-> cfg.memory_budget_mb * 1024 * 1024]

Init ==
  \E cfg \in [memory_budget_mb : BudgetsMb, enabled : BOOLEAN] :
    /\ config = New(cfg).config
    /\ cache = New(cfg).cache
    /\ access_order = New(cfg).access_order
    /\ current_memory_bytes = New(cfg).current_memory_bytes
    /\ memory_budget_bytes = New(cfg).memory_budget_bytes
    /\ last = NoCall
    /\ pre = [cache |-> EmptyMap, access_order |-> <<>>, current_memory_bytes |-> 0,
              recency |-> <<>>, protect |-> NoProtect]
    /\ recency = <<>>
    /\ protect = NoProtect
    /\ IdleOthers

\* ---- PrefixCache::evict_lru ---------------------------------------------
\* st carries the fields and two records of the call in progress: `evicted`,
\* the keys whose entry was dropped, and `stored`, whether the entry was stored
EvictLru(st) ==
  IF st.access_order = <<>> THEN st
  ELSE LET oldest_key == Head(st.access_order)
           hit == oldest_key \in DOMAIN st.cache
       IN [cache |-> IF hit THEN MapRemove(st.cache, oldest_key) ELSE st.cache,
           current_memory_bytes |->
             IF hit
             THEN SaturatingSub(st.current_memory_bytes,
                                EstimatedSize(st.cache[oldest_key].tokens))
             ELSE st.current_memory_bytes,
           access_order |-> Tail(st.access_order),
           evicted |-> IF hit THEN Append(st.evicted, oldest_key) ELSE st.evicted,
           stored |-> st.stored]

\* the comparison of insert's loop condition and of its final check
OverBudget(bytes, estimated_size) == bytes + estimated_size > memory_budget_bytes

\* insert's while loop
RECURSIVE EvictLoop(_, _)
EvictLoop(st, estimated_size) ==
  IF OverBudget(st.current_memory_bytes, estimated_size) /\ st.access_order # <<>>
  THEN EvictLoop(EvictLru(st), estimated_size)
  ELSE st

\* insert's final check: the prompt is too large to cache
TooLarge_entryOnly(st, estimated_size) == estimated_size > memory_budget_bytes

TooLarge_dropped(st, estimated_size) == FALSE

TooLarge(st, estimated_size) == OverBudget(st.current_memory_bytes, estimated_size)

\* insert's first check: a disabled cache stores nothing
InsertDisabled_never == FALSE

InsertDisabled == ~config.enabled

\* the CachedPrefix insert builds; the layers handed in are not kept
NewPrefix(key, tokens, kv) ==
  [key |-> key, tokens |-> tokens, kv_cache |-> 0, access_count |-> 1]

\* the fields after insert(key, tokens, kv)
InsertFields(st, key, tokens, kv) ==
  IF InsertDisabled THEN st
  ELSE LET estimated_size == EstimatedSize(tokens)
           ev == EvictLoop(st, estimated_size)
       IN IF TooLarge(ev, estimated_size) THEN ev
          ELSE [cache |-> MapInsert(ev.cache, key, NewPrefix(key, tokens, kv)),
                current_memory_bytes |-> ev.current_memory_bytes + estimated_size,
                access_order |-> Append(ev.access_order, key),
                evicted |-> ev.evicted,
                stored |-> TRUE]

\* the fields at the start of a call
Entry == [cache |-> cache, access_order |-> access_order,
          current_memory_bytes |-> current_memory_bytes,
          evicted |-> <<>>, stored |-> FALSE]

Snapshot == [cache |-> cache, access_order |-> access_order,
             current_memory_bytes |-> current_memory_bytes,
             recency |-> recency, protect |-> protect]

Insert(key, tokens, kv) ==
  LET st == InsertFields(Entry, key, tokens, kv)
      gone == Range(st.evicted)
  IN /\ cache' = st.cache
     /\ access_order' = st.access_order
     /\ current_memory_bytes' = st.current_memory_bytes
     /\ last' = [op |-> "insert", key |-> key, tokens |-> tokens, kv |-> kv,
                 result |-> None, evicted |-> st.evicted]
     /\ pre' = Snapshot
     /\ recency' = IF st.stored THEN Append(Without(recency, gone \cup {key}), key)
                   ELSE Without(recency, gone)
     /\ protect' = IF protect.key \in gone \/ (st.stored /\ protect.key = key)
                   THEN NoProtect
                   ELSE [protect EXCEPT
                           !.stale = (@ \ gone) \ (IF st.stored THEN {key} ELSE {})]
     /\ UNCHANGED <<config, memory_budget_bytes>>
     /\ UNCHANGED others

\* ---- PrefixCache::touch --------------------------------------------------
TouchOrder_front(order, key) ==
  LET pos == Position(order, key)
  IN IF pos # 0 THEN <<key>> \o RemoveAt(order, pos) ELSE order

TouchOrder(order, key) ==
  LET pos == Position(order, key)
  IN IF pos # 0 THEN Append(RemoveAt(order, pos), key) ELSE order

Touch(key) ==
  /\ access_order' = TouchOrder(access_order, key)
  /\ last' = [op |-> "touch", key |-> key, tokens |-> 0, kv |-> 0,
              result |-> None, evicted |-> <<>>]
  /\ pre' = Snapshot
  /\ recency' = IF key \in DOMAIN cache THEN Append(Without(recency, {key}), key)
                ELSE recency
  /\ protect' = IF key \in DOMAIN cache
                THEN [key |-> key, stale |-> (DOMAIN cache) \ {key}]
                ELSE protect
  /\ UNCHANGED <<config, cache, current_memory_bytes, memory_budget_bytes>>
  /\ UNCHANGED others

\* ---- PrefixCache::get ----------------------------------------------------
GetDisabled_never == FALSE

GetDisabled == ~config.enabled

\* the Option<Arc<CachedPrefix>> get returns
Lookup(key) ==
  IF GetDisabled THEN None
  ELSE IF key \in DOMAIN cache THEN cache[key] ELSE None

Get_touching(key) ==
  /\ last' = [op |-> "get", key |-> key, tokens |-> 0, kv |-> 0,
              result |-> Lookup(key), evicted |-> <<>>]
  /\ pre' = Snapshot
  /\ access_order' = TouchOrder(access_order, key)
  /\ UNCHANGED <<config, cache, current_memory_bytes, memory_budget_bytes,
                 recency, protect>>
  /\ UNCHANGED others

Get(key) ==
  /\ last' = [op |-> "get", key |-> key, tokens |-> 0, kv |-> 0,
              result |-> Lookup(key), evicted |-> <<>>]
  /\ pre' = Snapshot
  /\ UNCHANGED <<config, cache, access_order, current_memory_bytes,
                 memory_budget_bytes, recency, protect>>
  /\ UNCHANGED others

\* ---- PrefixCache::clear --------------------------------------------------
ClearFields_keepBytes(st) ==
  [st EXCEPT !.cache = EmptyMap, !.access_order = <<>>]

ClearFields(st) ==
  [st EXCEPT !.cache = EmptyMap, !.access_order = <<>>, !.current_memory_bytes = 0]

Clear ==
  LET st == ClearFields(Entry)
  IN /\ cache' = st.cache
     /\ access_order' = st.access_order
     /\ current_memory_bytes' = st.current_memory_bytes
     /\ last' = [op |-> "clear", key |-> None, tokens |-> 0, kv |-> 0,
                 result |-> None, evicted |-> <<>>]
     /\ pre' = Snapshot
     /\ recency' = <<>>
     /\ protect' = NoProtect
     /\ UNCHANGED <<config, memory_budget_bytes>>
     /\ UNCHANGED others

\* ---- PrefixCache::stats --------------------------------------------------
StatsOf_orderLen(st) ==
  [num_entries |-> Len(st.access_order),
   memory_used_mb |-> st.current_memory_bytes \div (1024 * 1024),
   memory_budget_mb |-> config.memory_budget_mb,
   hit_rate |-> 0]

StatsOf_bytes(st) ==
  [num_entries |-> Cardinality(DOMAIN st.cache),
   memory_used_mb |-> st.current_memory_bytes,
   memory_budget_mb |-> config.memory_budget_mb,
   hit_rate |-> 0]

StatsOf(st) ==
  [num_entries |-> Cardinality(DOMAIN st.cache),
   memory_used_mb |-> st.current_memory_bytes \div (1024 * 1024),
   memory_budget_mb |-> config.memory_budget_mb,
   hit_rate |-> 0]

Stats ==
  /\ last' = [op |-> "stats", key |-> None, tokens |-> 0, kv |-> 0,
              result |-> StatsOf(Entry), evicted |-> <<>>]
  /\ pre' = Snapshot
  /\ UNCHANGED <<config, cache, access_order, current_memory_bytes,
                 memory_budget_bytes, recency, protect>>
  /\ UNCHANGED others

Next ==
  \/ \E key \in CacheKey, tokens \in TokenLens, kv \in KvLayerCounts :
       Insert(key, tokens, kv)
  \/ \E key \in CacheKey : Touch(key)
  \/ \E key \in CacheKey : Get(key)
  \/ Clear
  \/ Stats

Spec == Init /\ [][Next]_vars

\* ---- claims --------------------------------------------------------------
\* sum of the footprints of the first n keys of seq, as entries of map
RECURSIVE FootprintOf(_, _, _)
FootprintOf(map, seq, n) ==
  IF n = 0 THEN 0
  ELSE EstimatedSize(map[seq[n]].tokens) + FootprintOf(map, seq, n - 1)

\* C1: budget invariant. In every state reachable by insert, touch, get and
\* clear (re-inserting a cached key included) the bytes committed never
\* exceed the budget: current_memory_bytes <= memory_budget_bytes.
C1_BudgetInvariant == current_memory_bytes <= memory_budget_bytes

\* a cached key was inserted again and the cache is filled to the last byte
C1_Witness ==
  /\ last.op = "insert"
  /\ last.key \in DOMAIN pre.cache
  /\ last.key \in DOMAIN cache
  /\ current_memory_bytes = memory_budget_bytes

\* C2: on an enabled cache an insert whose footprint is at most the budget
\* ends with the key cached (get(key) is a hit), whatever came before.
C2_FittingInsertIsCached ==
  (config.enabled /\ last.op = "insert"
     /\ EstimatedSize(last.tokens) <= memory_budget_bytes)
  => Lookup(last.key) # None

\* C3: LRU eviction order. When the insert of a new key evicts, the entries
\* evicted are the least recently inserted or touched ones, oldest first, and
\* the eviction stops as soon as the new entry fits (the eviction before the
\* last one had not made room yet).
C3_LruEvictionOrder ==
  (last.op = "insert" /\ last.key \notin DOMAIN pre.cache /\ last.evicted # <<>>)
  => LET n == Len(last.evicted)
     IN /\ n <= Len(pre.recency)
        /\ last.evicted = SubSeq(pre.recency, 1, n)
        /\ pre.current_memory_bytes - FootprintOf(pre.cache, last.evicted, n - 1)
             + EstimatedSize(last.tokens) > memory_budget_bytes

\* C4: touch protects an entry. The entry touched last is evicted only after
\* every entry that was cached at the time of the touch and has not been
\* inserted or touched since.
C4_TouchProtects ==
  (last.op = "insert" /\ pre.protect.key # None)
  => \A i \in 1..Len(last.evicted) :
       last.evicted[i] = pre.protect.key
       => pre.protect.stale \subseteq {last.evicted[j] : j \in 1..(i - 1)}

\* C5: an insert whose footprint exceeds the whole budget leaves the key
\* uncached (unless it was cached before and is still there with the same
\* entry) and does not increase current_memory_bytes.
C5_OversizeAbsorbed ==
  (last.op = "insert" /\ EstimatedSize(last.tokens) > memory_budget_bytes)
  => /\ \/ Lookup(last.key) = None
        \/ /\ last.key \in DOMAIN pre.cache
           /\ Lookup(last.key) = pre.cache[last.key]
     /\ current_memory_bytes <= pre.current_memory_bytes

\* an oversize insert into an enabled cache that held entries
C5_Witness ==
  /\ last.op = "insert"
  /\ EstimatedSize(last.tokens) > memory_budget_bytes
  /\ config.enabled
  /\ last.key \in DOMAIN pre.cache

\* C6: a disabled cache always misses and insert changes no state on it: no
\* entry, no recency record, a byte total of 0, and every get returns None.
C6_DisabledAlwaysMisses ==
  ~config.enabled
  => /\ \A k \in CacheKey : Lookup(k) = None
     /\ (last.op = "get" => last.result = None)
     /\ cache = EmptyMap
     /\ access_order = <<>>
     /\ current_memory_bytes = 0

\* an insert that would fit was made on a disabled cache
C6_Witness ==
  /\ ~config.enabled
  /\ last.op = "insert"
  /\ EstimatedSize(last.tokens) <= memory_budget_bytes

\* C7: get, hit or miss, leaves the table, the recency ordering and the byte
\* total as they were before the call.
C7_GetDoesNotMutate ==
  last.op = "get"
  => /\ cache = pre.cache
     /\ access_order = pre.access_order
     /\ current_memory_bytes = pre.current_memory_bytes

\* a hit on the entry that is next to be evicted, with younger entries behind it
C7_Witness ==
  /\ last.op = "get"
  /\ last.result # None
  /\ Len(access_order) >= 2
  /\ Head(access_order) = last.key
  /\ access_order[Len(access_order)] # last.key

\* C8: touch of a cached key moves it to the most-recently-used end and keeps
\* the relative order of the other keys; touch of a key that is not cached
\* changes nothing; in both cases the table and the byte total are unchanged.
C8_TouchMovesToBack ==
  last.op = "touch"
  => /\ cache = pre.cache
     /\ current_memory_bytes = pre.current_memory_bytes
     /\ IF last.key \in DOMAIN pre.cache
        THEN /\ Len(access_order) = Len(pre.access_order)
             /\ access_order[Len(access_order)] = last.key
             /\ Without(access_order, {last.key}) = Without(pre.access_order, {last.key})
        ELSE access_order = pre.access_order

\* C9: after clear the cache is in the state PrefixCache::new gives for its
\* configuration: no entry, empty recency ordering, byte total 0, every get a
\* miss, stats().num_entries = 0, budget and enabled flag as configured.
C9_ClearResets ==
  last.op = "clear"
  => /\ cache = New(config).cache
     /\ access_order = New(config).access_order
     /\ current_memory_bytes = New(config).current_memory_bytes
     /\ memory_budget_bytes = New(config).memory_budget_bytes
     /\ StatsOf(Entry).num_entries = 0
     /\ \A k \in CacheKey : Lookup(k) = None

\* clear of a cache that held entries and committed bytes
C9_Witness ==
  /\ last.op = "clear"
  /\ pre.cache # EmptyMap
  /\ pre.current_memory_bytes > 0
  /\ Len(pre.access_order) >= 2

\* C10: stats().num_entries counts the surviving entries: on an enabled cache
\* it is the number of keys for which get is a hit, it is 1 after a successful
\* insert into an empty table, and the call of stats changes no state.
C10_NumEntriesSurvivors ==
  /\ config.enabled
       => StatsOf(Entry).num_entries
            = Cardinality({k \in CacheKey : Lookup(k) # None})
  /\ (last.op = "insert" /\ pre.cache = EmptyMap /\ Lookup(last.key) # None)
       => StatsOf(Entry).num_entries = 1
  /\ last.op = "stats"
       => /\ last.result = StatsOf(Entry)
          /\ cache = pre.cache
          /\ access_order = pre.access_order
          /\ current_memory_bytes = pre.current_memory_bytes

\* stats read after an insert evicted an entry and left a stale recency record
C10_Witness ==
  /\ last.op = "stats"
  /\ last.result.num_entries >= 1
  /\ last.result.num_entries < Len(access_order)

\* C12: insert / lookup round trip. Right after an insert that cached its
\* entry, get(key) returns an entry whose key, token sequence and key/value
\* state are the ones handed to insert.
C12_InsertLookupRoundTrip ==
  (last.op = "insert" /\ Lookup(last.key) # None)
  => /\ Lookup(last.key).key = last.key
     /\ Lookup(last.key).tokens = last.tokens
     /\ Lookup(last.key).kv_cache = last.kv

\* C20: a rejected insert is a no-op. When insert on an enabled cache ends
\* without the new entry cached, the table, the recency ordering and the byte
\* total are what they were before the call.
C20_RejectedInsertNoOp ==
  (last.op = "insert" /\ config.enabled /\ Lookup(last.key) = None)
  => /\ cache = pre.cache
     /\ access_order = pre.access_order
     /\ current_memory_bytes = pre.current_memory_bytes

\* C21 as stated: the used-memory figure of stats() equals the bytes
\* committed, so it is not 0 while an entry is cached, and the budget of
\* stats() is the configured budget.
C21_StatsMemoryAsStated ==
  last.op = "stats"
  => /\ last.result.memory_used_mb = current_memory_bytes
     /\ (cache # EmptyMap => last.result.memory_used_mb # 0)
     /\ last.result.memory_budget_mb = config.memory_budget_mb

\* C21 amended: the used-memory figure of stats() is the bytes committed in
\* whole mebibytes, rounded down, so it stays 0 until a full mebibyte is
\* committed; the budget of stats() is the configured budget in mebibytes.
C21_StatsMemory ==
  last.op = "stats"
  => /\ last.result.memory_used_mb = current_memory_bytes \div (1024 * 1024)
     /\ last.result.memory_used_mb * (1024 * 1024) <= current_memory_bytes
     /\ current_memory_bytes < (last.result.memory_used_mb + 1) * (1024 * 1024)
     /\ last.result.memory_budget_mb = config.memory_budget_mb
     /\ last.result.memory_budget_mb * 1024 * 1024 = memory_budget_bytes

\* stats read 0 used with an entry cached and bytes committed
C21_Witness ==
  /\ last.op = "stats"
  /\ cache # EmptyMap
  /\ current_memory_bytes > 0
  /\ last.result.memory_used_mb = 0

\* sum of the footprints of the entries of map
RECURSIVE CachedBytes(_)
CachedBytes(map) ==
  IF DOMAIN map = {} THEN 0
  ELSE LET key == CHOOSE k \in DOMAIN map : TRUE
       IN EstimatedSize(map[key].tokens) + CachedBytes(MapRemove(map, key))

\* C23: recency ordering and table agree. The recency ordering holds exactly
\* the keys of the table, each once, and every eviction step of an insert
\* removed one entry that was cached.
C23_RecencyMatchesTable ==
  /\ Range(access_order) = DOMAIN cache
  /\ Len(access_order) = Cardinality(DOMAIN cache)
  /\ last.op = "insert"
       => /\ Range(last.evicted) \subseteq DOMAIN pre.cache
          /\ Len(last.evicted) = Cardinality(Range(last.evicted))
          /\ Range(last.evicted) \cap DOMAIN cache \subseteq {last.key}

\* C24: exact byte accounting. current_memory_bytes is the sum of the
\* footprints (4 bytes per token + 1024) of the cached entries, so it is 0
\* when the table is empty.
C24_ExactByteAccounting ==
  /\ current_memory_bytes = CachedBytes(cache)
  /\ cache = EmptyMap => current_memory_bytes = 0

\* ---- CacheKey::new -------------------------------------------------------
\* A &str is a sequence of characters.
Alphabet == {1, 2}

RECURSIVE StringsUpTo(_)
StringsUpTo(n) ==
  IF n = 0 THEN {<<>>}
  ELSE StringsUpTo(n - 1)
         \cup {Append(t, ch) : t \in {u \in StringsUpTo(n - 1) : Len(u) = n - 1},
                               ch \in Alphabet}

Strings == StringsUpTo(MaxStrLen)

Some(x) == [some |-> x]

\* Option<&str>
OptionalStrings == {None} \cup {Some(t) : t \in Strings}

\* model configurations told apart by the callers
ModelConfigs == {<<1>>, <<2>>}

\* Option::unwrap_or
UnwrapOr(opt, default) == IF opt = None THEN default ELSE opt.some

\* hash_string: DefaultHasher over the bytes of the string.  The 64-bit
\* SipHash value is stood for by a collision-free code of the string (the
\* length and every character enter it), so two keys are equal exactly when
\* the hashed strings are.
RECURSIVE HashString(_)
HashString(str) ==
  IF str = <<>> THEN 1
  ELSE HashString(SubSeq(str, 1, Len(str) - 1)) * (Cardinality(Alphabet) + 1)
         + str[Len(str)]

CacheKeyNew_promptTwice(prompt, system_prompt, model_config) ==
  [prompt_hash |-> HashString(prompt),
   system_hash |-> HashString(UnwrapOr(system_prompt, <<>>)),
   model_config_hash |-> HashString(prompt)]

CacheKeyNew_absentUnhashed(prompt, system_prompt, model_config) ==
  [prompt_hash |-> HashString(prompt),
   system_hash |-> IF system_prompt = None THEN 0 ELSE HashString(system_prompt.some),
   model_config_hash |-> HashString(model_config)]

CacheKeyNew(prompt, system_prompt, model_config) ==
  [prompt_hash |-> HashString(prompt),
   system_hash |-> HashString(UnwrapOr(system_prompt, <<>>)),
   model_config_hash |-> HashString(model_config)]

KeyArgs == [prompt : Strings, system_prompt : OptionalStrings, model_config : ModelConfigs]

\* nothing but CacheKey::new is in use
IdleCache ==
  /\ config = [memory_budget_mb |-> 1, enabled |-> TRUE]
  /\ cache = EmptyMap
  /\ access_order = <<>>
  /\ current_memory_bytes = 0
  /\ memory_budget_bytes = 1024 * 1024
  /\ last = NoCall
  /\ pre = [cache |-> EmptyMap, access_order |-> <<>>, current_memory_bytes |-> 0,
            recency |-> <<>>, protect |-> NoProtect]
  /\ recency = <<>>
  /\ protect = NoProtect

cacheVars == <<config, cache, access_order, current_memory_bytes, memory_budget_bytes,
               last, pre, recency, protect>>

InitKey ==
  /\ key_in \in KeyArgs \X KeyArgs
  /\ key_out = None
  /\ IdleCache
  /\ IdleArcs
  /\ IdlePaged
  /\ IdleBatch
  /\ IdleSimd

MakeKeys ==
  /\ key_out = None
  /\ key_out' = <<CacheKeyNew(key_in[1].prompt, key_in[1].system_prompt,
                              key_in[1].model_config),
                  CacheKeyNew(key_in[2].prompt, key_in[2].system_prompt,
                              key_in[2].model_config)>>
  /\ UNCHANGED <<key_in, cacheVars, arcVars, pagedVars, batchVars, simdVars>>

\* token counts of the entries inserted under the keys built
KeyTokenLens == {87040}

\* insert into the empty cache under one of the two keys built
KeyInsert(i) ==
  /\ key_out # None
  /\ cache = EmptyMap
  /\ \E tokens \in KeyTokenLens : Insert(key_out[i], tokens, 0)

\* get with one of the two keys built
KeyGet(i) ==
  /\ key_out # None
  /\ Get(key_out[i])

NextKey ==
  \/ MakeKeys
  \/ \E i \in {1, 2} : KeyInsert(i)
  \/ \E i \in {1, 2} : KeyGet(i)

SpecKey == InitKey /\ [][NextKey]_vars

\* C11 as stated: the two keys are equal for identical arguments and differ
\* whenever the prompt, the optional system prompt or the model configuration
\* differs.
C11_KeyEqualityAsStated ==
  key_out # None => ((key_out[1] = key_out[2]) <=> (key_in[1] = key_in[2]))

\* C11 amended: the two keys are equal exactly when the prompts are equal, the
\* system prompts are equal once an absent one is read as the empty string,
\* and the model configurations are equal; so one prompt and system prompt
\* under two model configurations give two keys.
C11_KeyEquality ==
  key_out # None
  => ((key_out[1] = key_out[2])
        <=> /\ key_in[1].prompt = key_in[2].prompt
            /\ UnwrapOr(key_in[1].system_prompt, <<>>)
                 = UnwrapOr(key_in[2].system_prompt, <<>>)
            /\ key_in[1].model_config = key_in[2].model_config)

\* the same prompt and system prompt under two model configurations
C11_Witness ==
  /\ key_out # None
  /\ key_in[1].prompt = key_in[2].prompt
  /\ key_in[1].system_prompt = key_in[2].system_prompt
  /\ key_in[1].system_prompt # None
  /\ key_in[1].model_config # key_in[2].model_config
  /\ key_out[1] # key_out[2]

\* C25: an absent system prompt is keyed as the empty string. For one prompt
\* and one model configuration, CacheKey::new with no system prompt and with
\* the empty system prompt give the same key, and with an entry cached under
\* either key a get with the other is a hit on that entry.
C25_AbsentIsEmpty ==
  key_out # None
  => \A i, j \in {1, 2} :
       (/\ key_in[i].prompt = key_in[j].prompt
        /\ key_in[i].model_config = key_in[j].model_config
        /\ key_in[i].system_prompt = None
        /\ key_in[j].system_prompt = Some(<<>>))
       => /\ key_out[i] = key_out[j]
          /\ (last.op = "insert" /\ last.key = key_out[i])
               => Lookup(key_out[j]) # None /\ Lookup(key_out[j]).key = key_out[i]
          /\ (last.op = "get" /\ last.key = key_out[j] /\ cache # EmptyMap)
               => last.result # None /\ last.result.key = key_out[i]
          /\ (last.op = "insert" /\ last.key = key_out[j])
               => Lookup(key_out[i]) # None /\ Lookup(key_out[i]).key = key_out[j]
          /\ (last.op = "get" /\ last.key = key_out[i] /\ cache # EmptyMap)
               => last.result # None /\ last.result.key = key_out[j]

\* an entry inserted with no system prompt was hit by a get with the empty one
C25_Witness ==
  /\ key_out # None
  /\ key_in[1].prompt = key_in[2].prompt
  /\ key_in[1].prompt # <<>>
  /\ key_in[1].model_config = key_in[2].model_config
  /\ key_in[1].system_prompt = None
  /\ key_in[2].system_prompt = Some(<<>>)
  /\ last.op = "get"
  /\ last.result # None
  /\ last.result.tokens \in KeyTokenLens

\* ---- Arc<CachedPrefix>: the table and its readers share each entry --------
Readers == 1..NumReaders

ArcIds == 1..HeapSlots

\* a slot of the heap that holds no allocation
Released == [value |-> None, strong |-> 0, live |-> FALSE]

\* Arc::new: an allocation in a free slot, strong count 1
ArcNew(h, id, value) == [h EXCEPT ![id] = [value |-> value, strong |-> 1, live |-> TRUE]]

\* Arc::clone
ArcClone_borrow(h, id) == h

ArcClone(h, id) == [h EXCEPT ![id].strong = @ + 1]

\* drop of an Arc: the allocation is released with its last reference
ArcDrop_release(h, id) == [h EXCEPT ![id] = Released]

ArcDrop(h, id) ==
  IF h[id].strong = 1 THEN [h EXCEPT ![id] = Released]
  ELSE [h EXCEPT ![id].strong = @ - 1]

\* drop of the Arcs the table held for the keys of seq, in that order
RECURSIVE ArcDropAll(_, _, _)
ArcDropAll(h, arcs, seq) ==
  IF seq = <<>> THEN h
  ELSE ArcDropAll(ArcDrop(h, arcs[Head(seq)]), arcs, Tail(seq))

\* the keys of a map, in some order
RECURSIVE KeysOf(_)
KeysOf(S) ==
  IF S = {} THEN <<>>
  ELSE LET k == CHOOSE k \in S : TRUE IN <<k>> \o KeysOf(S \ {k})

SharedKeys == {k \in CacheKey : k.prompt_hash <= 2}

\* footprints of half and of the whole of the budget
SharedTokenLens == {130816, 261888}

InitShared ==
  /\ IdleCache
  /\ IdleKeys
  /\ IdlePaged
  /\ IdleBatch
  /\ IdleSimd
  /\ heap = [id \in ArcIds |-> Released]
  /\ table_arc = EmptyMap
  /\ held = [r \in Readers |-> None]

\* insert, with the Arcs it creates and drops: evict_lru drops the Arc of each
\* entry it removes, Arc::new builds the new one, HashMap::insert drops the
\* Arc it replaces
SharedInsert(key, tokens) ==
  LET st == InsertFields(Entry, key, tokens, 0)
      evicted_heap == ArcDropAll(heap, table_arc, st.evicted)
      left == [k \in (DOMAIN table_arc) \ Range(st.evicted) |-> table_arc[k]]
      free == {id \in ArcIds : ~evicted_heap[id].live}
  IN /\ st.stored => free # {}
     /\ cache' = st.cache
     /\ access_order' = st.access_order
     /\ current_memory_bytes' = st.current_memory_bytes
     /\ last' = [op |-> "insert", key |-> key, tokens |-> tokens, kv |-> 0,
                 result |-> None, evicted |-> st.evicted]
     /\ IF st.stored
        THEN LET id == CHOOSE id \in free : \A other \in free : id <= other
                 built == ArcNew(evicted_heap, id, st.cache[key])
             IN /\ heap' = IF key \in DOMAIN left THEN ArcDrop(built, left[key])
                           ELSE built
                /\ table_arc' = MapInsert(left, key, id)
        ELSE /\ heap' = evicted_heap
             /\ table_arc' = left
     /\ UNCHANGED <<config, memory_budget_bytes, pre, recency, protect, held, keyVars,
                    pagedVars, batchVars, simdVars>>

\* get by a reader that holds nothing: the Arc is cloned and kept
SharedGet(reader, key) ==
  /\ held[reader] = None
  /\ last' = [op |-> "get", key |-> key, tokens |-> 0, kv |-> 0,
              result |-> Lookup(key), evicted |-> <<>>]
  /\ IF Lookup(key) # None
     THEN /\ heap' = ArcClone(heap, table_arc[key])
          /\ held' = [held EXCEPT ![reader] =
                        [id |-> table_arc[key], value |-> heap[table_arc[key]].value]]
     ELSE UNCHANGED <<heap, held>>
  /\ UNCHANGED <<config, cache, access_order, current_memory_bytes,
                 memory_budget_bytes, pre, recency, protect, table_arc, keyVars,
                 pagedVars, batchVars, simdVars>>

\* the reader drops the Arc it holds
ReaderDrop(reader) ==
  /\ held[reader] # None
  /\ heap' = ArcDrop(heap, held[reader].id)
  /\ held' = [held EXCEPT ![reader] = None]
  /\ last' = [op |-> "drop", key |-> None, tokens |-> 0, kv |-> 0,
              result |-> None, evicted |-> <<>>]
  /\ UNCHANGED <<config, cache, access_order, current_memory_bytes,
                 memory_budget_bytes, pre, recency, protect, table_arc, keyVars,
                 pagedVars, batchVars, simdVars>>

\* clear, with the Arcs HashMap::clear drops
SharedClear ==
  LET st == ClearFields(Entry)
  IN /\ cache' = st.cache
     /\ access_order' = st.access_order
     /\ current_memory_bytes' = st.current_memory_bytes
     /\ heap' = ArcDropAll(heap, table_arc, KeysOf(DOMAIN table_arc))
     /\ table_arc' = EmptyMap
     /\ last' = [op |-> "clear", key |-> None, tokens |-> 0, kv |-> 0,
                 result |-> None, evicted |-> <<>>]
     /\ UNCHANGED <<config, memory_budget_bytes, pre, recency, protect, held, keyVars,
                    pagedVars, batchVars, simdVars>>

NextShared ==
  \/ \E key \in SharedKeys, tokens \in SharedTokenLens : SharedInsert(key, tokens)
  \/ \E reader \in Readers, key \in SharedKeys : SharedGet(reader, key)
  \/ \E reader \in Readers : ReaderDrop(reader)
  \/ SharedClear

SpecShared == InitShared /\ [][NextShared]_vars

\* references to allocation id: the table's and the readers'
RefCount(id) ==
  Cardinality({k \in DOMAIN table_arc : table_arc[k] = id})
    + Cardinality({r \in Readers : held[r] # None /\ held[r].id = id})

\* C13: shared ownership. What a reader holds stays allocated with the content
\* it read, whatever insert, eviction or clear did since; an allocation is
\* released exactly when neither the table nor a reader refers to it; and a
\* lookup only hands out the allocation the table refers to at that time, so
\* an evicted entry is never handed out again.
C13_SharedOwnership ==
  /\ \A r \in Readers :
       held[r] # None
       => heap[held[r].id].live /\ heap[held[r].id].value = held[r].value
  /\ \A id \in ArcIds :
       /\ heap[id].live <=> RefCount(id) > 0
       /\ heap[id].strong = RefCount(id)
  /\ (last.op = "get" /\ last.result # None)
       => \E r \in Readers :
            /\ held[r] # None
            /\ held[r].id = table_arc[last.key]
            /\ held[r].value = last.result

\* a reader still holds an entry the table has dropped, while the other
\* reader has since looked up the same key and got the new entry
C13_Witness ==
  \E r1, r2 \in Readers :
    /\ held[r1] # None /\ held[r2] # None
    /\ held[r1].value.key = held[r2].value.key
    /\ held[r1].id # held[r2].id
    /\ held[r1].id \notin {table_arc[k] : k \in DOMAIN table_arc}
    /\ heap[held[r1].id].strong = 1

\* ---- Paged KV Cache and Block Store (spec 3, 4.1, 5) -----------------------
\* positions one block holds
BlockCapacity == 2

\* configured maximum of concurrent sequences
MaxSequences == 2

\* one sequence id more than may be active at a time
SeqIds == 1..(MaxSequences + 1)

\* num_positions asked for: up to one more than the pool can hold
PositionCounts == 0..(NumBlocks * BlockCapacity + 1)

\* the Paged KV Cache as one value
Paged == [free_list |-> free_list, block_tables |-> block_tables,
          mid_step |-> mid_step, sched_order |-> sched_order]

NewPaged ==
  [free_list |-> [i \in 1..NumBlocks |-> i], block_tables |-> EmptyMap,
   mid_step |-> {}, sched_order |-> <<>>]

\* blocks needed to hold n positions
BlocksFor(n) == (n + BlockCapacity - 1) \div BlockCapacity

\* blocks in use, over all block tables
RECURSIVE BlocksInUse(_, _)
BlocksInUse(tables, S) ==
  IF S = {} THEN 0
  ELSE LET t == CHOOSE t \in S : TRUE
       IN Len(tables[t].blocks) + BlocksInUse(tables, S \ {t})

Outcome(pc, result) == [pc |-> pc, result |-> result]

\* allocate(sequence_id), for an id that is not registered
PagedAllocate(pc, s) ==
  IF Cardinality(DOMAIN pc.block_tables) >= MaxSequences
  THEN Outcome(pc, "CapacityExceeded")
  ELSE Outcome([pc EXCEPT
                  !.block_tables = MapInsert(@, s, [blocks |-> <<>>, valid |-> 0]),
                  !.sched_order = Append(@, s)], "Ok")

\* release(sequence_id): the blocks of its table go back to the free list
PagedRelease_keepTable(pc, s) ==
  IF s \in DOMAIN pc.block_tables
  THEN Outcome([pc EXCEPT !.free_list = @ \o pc.block_tables[s].blocks], "Ok")
  ELSE Outcome(pc, "Ok")

PagedRelease_dropBlocks(pc, s) ==
  IF s \in DOMAIN pc.block_tables
  THEN Outcome([pc EXCEPT
                  !.block_tables = MapRemove(@, s),
                  !.mid_step = @ \ {s},
                  !.sched_order = Without(@, {s})], "Ok")
  ELSE Outcome(pc, "Ok")

PagedRelease(pc, s) ==
  IF s \in DOMAIN pc.block_tables
  THEN Outcome([pc EXCEPT
                  !.free_list = @ \o pc.block_tables[s].blocks,
                  !.block_tables = MapRemove(@, s),
                  !.mid_step = @ \ {s},
                  !.sched_order = Without(@, {s})], "Ok")
  ELSE Outcome(pc, "Ok")

\* the sequences blocks may be reclaimed from for s, least recently scheduled
\* first: every other sequence that is not mid-step in the current round
Evictable_anyOther(pc, s) == SelectSeq(pc.sched_order, LAMBDA t : t # s)

Evictable(pc, s) ==
  SelectSeq(pc.sched_order, LAMBDA t : t # s /\ t \notin pc.mid_step)

\* reclaim from the victims, one sequence at a time, until `needed` blocks are free
RECURSIVE Reclaim(_, _, _)
Reclaim(pc, victims, needed) ==
  IF Len(pc.free_list) >= needed \/ victims = <<>> THEN pc
  ELSE Reclaim(PagedRelease(pc, Head(victims)).pc, Tail(victims), needed)

\* the block table of s grown by the first `needed` free blocks
Grow_keepFree(pc, s, needed) ==
  [pc EXCEPT !.block_tables[s].blocks = @ \o SubSeq(pc.free_list, 1, needed)]

Grow(pc, s, needed) ==
  [pc EXCEPT
     !.block_tables[s].blocks = @ \o SubSeq(pc.free_list, 1, needed),
     !.free_list = SubSeq(@, needed + 1, Len(@))]

\* ensure_capacity(sequence_id, num_positions), for a registered id
PagedEnsureCapacity(pc, s, n) ==
  LET needed == BlocksFor(n) - Len(pc.block_tables[s].blocks)
      reclaimed == Reclaim(pc, Evictable(pc, s), needed)
  IN IF needed <= 0 THEN Outcome(pc, "Ok")
     ELSE IF Len(reclaimed.free_list) < needed THEN Outcome(pc, "OutOfMemory")
     ELSE Outcome(Grow(reclaimed, s, needed), "Ok")

\* write(sequence_id, 0..upto, data), for a registered id
PagedWrite(pc, s, upto) ==
  IF upto > Len(pc.block_tables[s].blocks) * BlockCapacity
  THEN Outcome(pc, "InvalidRange")
  ELSE Outcome([pc EXCEPT !.block_tables[s].valid = IF upto > @ THEN upto ELSE @],
               "Ok")

\* the call made, its result, and the state before it
PagedCall(name, s, n, out) ==
  /\ free_list' = out.pc.free_list
  /\ block_tables' = out.pc.block_tables
  /\ mid_step' = out.pc.mid_step
  /\ sched_order' = out.pc.sched_order
  /\ plast' = [op |-> name, seq |-> s, n |-> n, result |-> out.result]
  /\ ppre' = Paged
  /\ UNCHANGED <<cacheVars, keyVars, arcVars, batchVars, simdVars>>

InitPaged ==
  /\ free_list = NewPaged.free_list
  /\ block_tables = NewPaged.block_tables
  /\ mid_step = NewPaged.mid_step
  /\ sched_order = NewPaged.sched_order
  /\ plast = [op |-> "new", seq |-> 0, n |-> 0, result |-> "Ok"]
  /\ ppre = NewPaged
  /\ IdleCache /\ IdleKeys /\ IdleArcs /\ IdleBatch /\ IdleSimd

Allocate(s) ==
  /\ s \notin DOMAIN block_tables
  /\ PagedCall("allocate", s, 0, PagedAllocate(Paged, s))

EnsureCapacity(s, n) ==
  /\ s \in DOMAIN block_tables
  /\ PagedCall("ensure_capacity", s, n, PagedEnsureCapacity(Paged, s, n))

Write(s, upto) ==
  /\ s \in DOMAIN block_tables
  /\ PagedCall("write", s, upto, PagedWrite(Paged, s, upto))

Release(s) ==
  /\ s \in SeqIds
  /\ PagedCall("release", s, 0, PagedRelease(Paged, s))

\* the scheduling loop starts a batch round with the sequences S
BeginRound(S) ==
  /\ mid_step = {}
  /\ S # {}
  /\ S \subseteq DOMAIN block_tables
  /\ PagedCall("begin_round", 0, 0,
               Outcome([Paged EXCEPT
                          !.mid_step = S,
                          !.sched_order = Without(@, S) \o SelectSeq(@, LAMBDA t : t \in S)],
                       "Ok"))

\* the round is over
EndRound ==
  /\ mid_step # {}
  /\ PagedCall("end_round", 0, 0, Outcome([Paged EXCEPT !.mid_step = {}], "Ok"))

\* the ends of the ranges written: the last reserved position of the
\* sequence, and the first one beyond
WriteEnds(s) ==
  IF s \in DOMAIN block_tables
  THEN {Len(block_tables[s].blocks) * BlockCapacity,
        Len(block_tables[s].blocks) * BlockCapacity + 1}
  ELSE {}

NextPaged ==
  \/ \E s \in SeqIds : Allocate(s)
  \/ \E s \in SeqIds, n \in PositionCounts : EnsureCapacity(s, n)
  \/ \E s \in SeqIds : \E upto \in WriteEnds(s) : Write(s, upto)
  \/ \E s \in SeqIds : Release(s)
  \/ \E S \in SUBSET SeqIds : BeginRound(S)
  \/ EndRound

SpecPaged == InitPaged /\ [][NextPaged]_vars

\* the blocks named in the block tables of the sequences S
TableBlocks(tables, S) == UNION {Range(tables[t].blocks) : t \in S}

\* C14: memory bound. The blocks in use never exceed the pool, and blocks in
\* use plus free blocks always make up the pool.
C14_MemoryBound ==
  /\ BlocksInUse(block_tables, DOMAIN block_tables) <= NumBlocks
  /\ BlocksInUse(block_tables, DOMAIN block_tables) + Len(free_list) = NumBlocks

\* the pool is used up after a growth that reclaimed the blocks of a sequence
C14_Witness ==
  /\ free_list = <<>>
  /\ plast.op = "ensure_capacity"
  /\ plast.result = "Ok"
  /\ DOMAIN ppre.block_tables # DOMAIN block_tables
  /\ Len(block_tables[plast.seq].blocks) = NumBlocks

\* C15: no aliasing. No block index is in the block tables of two active
\* sequences, and none is both in a block table and in the free list.
C15_NoAliasing ==
  /\ \A t, u \in DOMAIN block_tables :
       t # u => Range(block_tables[t].blocks) \cap Range(block_tables[u].blocks) = {}
  /\ TableBlocks(block_tables, DOMAIN block_tables) \cap Range(free_list) = {}

\* two sequences hold blocks, one of them a block that was in use before,
\* released and handed out again
C15_Witness ==
  /\ plast.op = "ensure_capacity"
  /\ plast.result = "Ok"
  /\ ppre.free_list # <<>>
  /\ Head(ppre.free_list) # 1
  /\ Head(ppre.free_list) \in Range(block_tables[plast.seq].blocks)
  /\ \E u \in DOMAIN block_tables : u # plast.seq /\ block_tables[u].blocks # <<>>

\* C16: idempotent release. release returns Ok, the sequence is no longer
\* registered and its blocks are in the free list; release of an id that is
\* not registered (released before, or unknown) changes nothing; and the free
\* list never holds a block twice.
C16_IdempotentRelease ==
  /\ Cardinality(Range(free_list)) = Len(free_list)
  /\ plast.op = "release"
       => /\ plast.result = "Ok"
          /\ plast.seq \notin DOMAIN block_tables
          /\ IF plast.seq \in DOMAIN ppre.block_tables
             THEN /\ Range(ppre.block_tables[plast.seq].blocks) \subseteq Range(free_list)
                  /\ Len(free_list) = Len(ppre.free_list)
                                        + Len(ppre.block_tables[plast.seq].blocks)
             ELSE Paged = ppre

\* release of an id that is not registered while another sequence holds blocks
C16_Witness ==
  /\ plast.op = "release"
  /\ plast.seq \notin DOMAIN ppre.block_tables
  /\ Len(free_list) < NumBlocks
  /\ Len(free_list) > 0

\* what ensure_capacity(s, n) would have to reclaim from
ReclaimableBlocks(pc, s) ==
  BlocksInUse(pc.block_tables,
              {t \in DOMAIN pc.block_tables : t # s /\ t \notin pc.mid_step})

\* C17: failure-safe growth. ensure_capacity reports OutOfMemory exactly when
\* the free blocks and the blocks of the other sequences that are not mid-step
\* do not cover the growth, and then the block table and the valid positions of
\* the requesting sequence are unchanged; a sequence that is mid-step in the
\* round keeps its block table through every ensure_capacity of another one.
C17_FailureSafeGrowth ==
  plast.op = "ensure_capacity"
  => LET s == plast.seq
         needed == BlocksFor(plast.n) - Len(ppre.block_tables[s].blocks)
     IN /\ plast.result = "OutOfMemory"
             <=> needed > Len(ppre.free_list) + ReclaimableBlocks(ppre, s)
        /\ plast.result = "OutOfMemory" => block_tables[s] = ppre.block_tables[s]
        /\ plast.result = "Ok"
             => /\ Len(block_tables[s].blocks) * BlockCapacity >= plast.n
                /\ block_tables[s].valid = ppre.block_tables[s].valid
        /\ \A t \in ppre.mid_step :
             t # s => t \in DOMAIN block_tables /\ block_tables[t] = ppre.block_tables[t]

\* OutOfMemory although another sequence holds blocks, because it is mid-step
C17_Witness ==
  /\ plast.op = "ensure_capacity"
  /\ plast.result = "OutOfMemory"
  /\ \E t \in ppre.mid_step : t # plast.seq /\ ppre.block_tables[t].blocks # <<>>
  /\ ppre.block_tables[plast.seq].blocks # <<>>
  /\ BlocksFor(plast.n) <= NumBlocks

\* ---- Dynamic Batcher (spec 4.3, 5, 7) --------------------------------------
\* configured maximum batch size
MaxBatchSize == 2

\* per-request limit of rounds a request may be skipped in for lack of capacity
RetryLimit == 1

Handles == 1..MaxRequests

\* blocks a request needs to run
Needs == {1, 2}

\* key/value capacity free in a round, in blocks; the largest covers any batch
Capacities == 0..(2 * MaxBatchSize)

Terminal == {"Completed", "Failed", "Cancelled"}

\* the Dynamic Batcher as one value
Batcher == [queue |-> queue, req_state |-> req_state, delivered |-> delivered,
            need |-> need, retries |-> retries]

NewBatcher ==
  [queue |-> <<>>,
   req_state |-> [h \in Handles |-> "Unsubmitted"],
   delivered |-> [h \in Handles |-> <<>>],
   need |-> [h \in Handles |-> 0],
   retries |-> [h \in Handles |-> 0]]

\* the terminal delivery to handle h
Deliver(b, h, outcome) ==
  [b EXCEPT !.req_state[h] = outcome, !.delivered[h] = Append(@, outcome)]

\* the queued requests `gone` leave the queue, and their queue records with them
Dequeue(b, gone) ==
  [b EXCEPT !.need = [h \in Handles |-> IF h \in gone THEN 0 ELSE @[h]],
            !.retries = [h \in Handles |-> IF h \in gone THEN 0 ELSE @[h]]]

\* terminal deliveries to the handles of seq, in that order
RECURSIVE DeliverAll(_, _, _)
DeliverAll(b, seq, outcome) ==
  IF seq = <<>> THEN b
  ELSE DeliverAll(Deliver(b, Head(seq), outcome), Tail(seq), outcome)

\* submit(request) -> handle
BatchSubmit(b, h, blocks) ==
  [b EXCEPT !.queue = Append(@, h), !.req_state[h] = "Queued", !.need[h] = blocks]

\* poll_batch's pass over the queue, oldest first: a request is taken while
\* the batch has room and its blocks fit what is left of the capacity, and
\* skipped for this round when they do not fit
RECURSIVE Scan_unbounded(_, _, _, _, _)
Scan_unbounded(q, needs, capacity, batch, skipped) ==
  IF q = <<>>
  THEN [batch |-> batch, skipped |-> skipped]
  ELSE IF needs[Head(q)] <= capacity
       THEN Scan_unbounded(Tail(q), needs, capacity - needs[Head(q)],
                           Append(batch, Head(q)), skipped)
       ELSE Scan_unbounded(Tail(q), needs, capacity, batch, Append(skipped, Head(q)))

RECURSIVE Scan(_, _, _, _, _)
Scan(q, needs, capacity, batch, skipped) ==
  IF q = <<>> \/ Len(batch) >= MaxBatchSize
  THEN [batch |-> batch, skipped |-> skipped]
  ELSE IF needs[Head(q)] <= capacity
       THEN Scan(Tail(q), needs, capacity - needs[Head(q)],
                 Append(batch, Head(q)), skipped)
       ELSE Scan(Tail(q), needs, capacity, batch, Append(skipped, Head(q)))

\* the queue after a round: the requests not taken stay where they were
Requeue(q, batch, skipped, dropped) == Without(q, Range(batch) \cup Range(dropped))

\* the batching policy's trigger
Due(b, elapsed) == Len(b.queue) >= MaxBatchSize \/ (elapsed /\ b.queue # <<>>)

\* poll_batch() with `capacity` blocks free and the wait of the oldest
\* request elapsed or not
BatchPoll(b, capacity, elapsed) ==
  IF ~Due(b, elapsed) THEN [b |-> b, batch |-> <<>>, dropped |-> <<>>]
  ELSE LET sc == Scan(b.queue, b.need, capacity, <<>>, <<>>)
           dropped == SelectSeq(sc.skipped, LAMBDA h : b.retries[h] >= RetryLimit)
           counted == [b EXCEPT
                         !.retries = [h \in Handles |->
                                        IF h \in Range(sc.skipped) THEN @[h] + 1 ELSE @[h]],
                         !.req_state = [h \in Handles |->
                                          IF h \in Range(sc.batch) THEN "Scheduled" ELSE @[h]],
                         !.queue = Requeue(@, sc.batch, sc.skipped, dropped)]
       IN [b |-> DeliverAll(Dequeue(counted, Range(sc.batch) \cup Range(dropped)),
                            dropped, "Failed"),
           batch |-> sc.batch, dropped |-> dropped]

\* the scheduling loop starts the forward pass of a scheduled request
BatchStart(b, h) ==
  IF b.req_state[h] = "Scheduled" THEN [b EXCEPT !.req_state[h] = "Running"] ELSE b

\* complete(handle, result) and fail(handle, error)
BatchFinish_unguarded(b, h, outcome) == Deliver(b, h, outcome)

BatchFinish(b, h, outcome) ==
  IF b.req_state[h] = "Running" THEN Deliver(b, h, outcome) ELSE b

\* cancel(handle)
BatchCancel(b, h) ==
  IF b.req_state[h] \in {"Queued", "Scheduled", "Running"}
  THEN Deliver(Dequeue([b EXCEPT !.queue = Without(@, {h})], {h}), h, "Cancelled")
  ELSE b

\* what a call other than poll_batch leaves in blast
Other(b) == [ignored |-> b = Batcher]

BatchCall(name, b, info) ==
  /\ queue' = b.queue
  /\ req_state' = b.req_state
  /\ delivered' = b.delivered
  /\ need' = b.need
  /\ retries' = b.retries
  /\ blast' = [op |-> name, info |-> info]
  /\ UNCHANGED <<cacheVars, keyVars, arcVars, pagedVars, simdVars>>

InitBatch ==
  /\ queue = NewBatcher.queue
  /\ req_state = NewBatcher.req_state
  /\ delivered = NewBatcher.delivered
  /\ need = NewBatcher.need
  /\ retries = NewBatcher.retries
  /\ blast = [op |-> "new", info |-> [ignored |-> FALSE]]
  /\ IdleCache /\ IdleKeys /\ IdleArcs /\ IdlePaged /\ IdleSimd

\* handles are given out in the order of submission
Submit(blocks) ==
  /\ \E h \in Handles : req_state[h] = "Unsubmitted"
  /\ LET h == CHOOSE h \in Handles :
                /\ req_state[h] = "Unsubmitted"
                /\ \A g \in Handles : req_state[g] = "Unsubmitted" => h <= g
     IN BatchCall("submit", BatchSubmit(Batcher, h, blocks), [ignored |-> FALSE])

PollBatch(capacity, elapsed) ==
  /\ capacity \in Capacities
  /\ LET out == BatchPoll(Batcher, capacity, elapsed)
     IN BatchCall("poll_batch", out.b,
                  [batch |-> out.batch, dropped |-> out.dropped, capacity |-> capacity,
                   elapsed |-> elapsed, queue_before |-> queue, need_before |-> need])

Start(h) ==
  /\ req_state[h] = "Scheduled"
  /\ BatchCall("start", BatchStart(Batcher, h), [ignored |-> FALSE])

Complete(h) ==
  /\ req_state[h] # "Unsubmitted"
  /\ BatchCall("complete", BatchFinish(Batcher, h, "Completed"),
               Other(BatchFinish(Batcher, h, "Completed")))

Fail(h) ==
  /\ req_state[h] # "Unsubmitted"
  /\ BatchCall("fail", BatchFinish(Batcher, h, "Failed"),
               Other(BatchFinish(Batcher, h, "Failed")))

Cancel(h) ==
  /\ req_state[h] # "Unsubmitted"
  /\ BatchCall("cancel", BatchCancel(Batcher, h), Other(BatchCancel(Batcher, h)))

NextBatch ==
  \/ \E blocks \in Needs : Submit(blocks)
  \/ \E capacity \in Capacities, elapsed \in BOOLEAN : PollBatch(capacity, elapsed)
  \/ \E h \in Handles : Start(h)
  \/ \E h \in Handles : Complete(h)
  \/ \E h \in Handles : Fail(h)
  \/ \E h \in Handles : Cancel(h)

SpecBatch == InitBatch /\ [][NextBatch]_vars

\* the scheduling loop keeps running: a due round is polled, a scheduled
\* request is started, a running request is completed or failed
PollDue == \E capacity \in Capacities : queue # <<>> /\ PollBatch(capacity, TRUE)

Finish(h) == req_state[h] = "Running" /\ (Complete(h) \/ Fail(h))

\* one step of the single scheduling loop
LoopStep == PollDue \/ \E h \in Handles : Start(h) \/ Finish(h)

FairSpecBatch == InitBatch /\ [][NextBatch]_vars /\ WF_vars(LoopStep)

\* sum of the blocks the first n requests of seq needed at the last round
RECURSIVE NeedOf(_, _)
NeedOf(seq, n) ==
  IF n = 0 THEN 0 ELSE blast.info.need_before[seq[n]] + NeedOf(seq, n - 1)

Min(a, b) == IF a <= b THEN a ELSE b

\* C18: batcher fairness. A round takes at most max_batch_size requests, in
\* submission order; a request passed over ahead of one taken did not fit the
\* capacity left at its turn; with capacity for all, and with capacity for k
\* requests of equal need, the batch is the oldest requests of the queue; the
\* requests left keep their queue order.
C18_BatcherFairness ==
  blast.op = "poll_batch"
  => LET q == blast.info.queue_before
         batch == blast.info.batch
         capacity == blast.info.capacity
         needs == blast.info.need_before
         due == Len(q) >= MaxBatchSize \/ (blast.info.elapsed /\ q # <<>>)
     IN /\ Len(batch) <= MaxBatchSize
        /\ batch = SelectSeq(q, LAMBDA h : h \in Range(batch))
        /\ \A i, j \in 1..Len(batch) : i < j => batch[i] < batch[j]
        /\ \A i, j \in 1..Len(q) :
             (i < j /\ q[i] \notin Range(batch) /\ q[j] \in Range(batch))
             => needs[q[i]] > capacity
                  - NeedOf(SelectSeq(SubSeq(q, 1, i), LAMBDA h : h \in Range(batch)),
                           Len(SelectSeq(SubSeq(q, 1, i), LAMBDA h : h \in Range(batch))))
        /\ (due /\ NeedOf(q, Len(q)) <= capacity)
             => batch = SubSeq(q, 1, Min(MaxBatchSize, Len(q)))
        /\ \A k \in 1..Len(q) :
             (due /\ NeedOf(q, k) <= capacity)
             => /\ Len(batch) >= Min(k, MaxBatchSize)
                /\ SubSeq(batch, 1, Min(k, MaxBatchSize)) = SubSeq(q, 1, Min(k, MaxBatchSize))
        /\ \A d \in Needs :
             (due /\ \A i \in 1..Len(q) : needs[q[i]] = d)
             => batch = SubSeq(q, 1, Min(capacity \div d, Min(MaxBatchSize, Len(q))))
        /\ queue = SelectSeq(q, LAMBDA h : h \in Range(queue))
        /\ Range(queue) = Range(q) \ (Range(batch) \cup Range(blast.info.dropped))
        /\ \A i, j \in 1..Len(queue) : i < j => queue[i] < queue[j]

\* a round that passed over the oldest request and took a younger one
C18_Witness ==
  /\ blast.op = "poll_batch"
  /\ Len(blast.info.queue_before) = 3
  /\ blast.info.batch # <<>>
  /\ Head(blast.info.batch) # Head(blast.info.queue_before)
  /\ queue # <<>>
  /\ Head(queue) = Head(blast.info.queue_before)

\* C19: exactly-once delivery. No handle ever has more than one terminal
\* outcome, a handle has one exactly when its request is terminal, with that
\* outcome, and every submitted handle eventually has one: a handle stays
\* submitted and an outcome stays delivered, so this is that again and again
\* every handle submitted so far has its outcome.
C19_ExactlyOnce ==
  /\ [](\A h \in Handles :
          /\ Len(delivered[h]) <= 1
          /\ (req_state[h] \in Terminal <=> Len(delivered[h]) = 1)
          /\ (Len(delivered[h]) = 1 => delivered[h][1] = req_state[h]))
  /\ []<>(\A h \in Handles : req_state[h] # "Unsubmitted" => Len(delivered[h]) = 1)

\* every request terminal, one of each outcome, and a further complete ignored
C19_Witness ==
  /\ blast.op = "complete"
  /\ blast.info.ignored
  /\ \A h \in Handles : req_state[h] \in Terminal
  /\ \A outcome \in Terminal : \E h \in Handles : delivered[h] = <<outcome>>

\* ---- SimdDispatch: the process-wide OnceLock (simd_dispatch.rs) -------------
SimdLevel == {"Auto", "Avx512", "Avx2", "Neon", "Scalar"}

\* the levels init is called with: Auto, one no detected CPU recommends, and
\* one any CPU runs
InitLevels == {"Auto", "Avx512", "Scalar"}

Threads == 1..NumThreads

\* struct CpuFeatures
CpuFeatures ==
  [has_avx512 : BOOLEAN, has_avx2 : BOOLEAN, has_avx : BOOLEAN, has_neon : BOOLEAN,
   num_cores : {2}, num_physical_cores : {1}]

\* the builds (cfg(target_arch)) and what the running CPU reports
Hosts ==
  {[target_arch |-> "x86_64", neon |-> FALSE, num_cores |-> 2, num_physical_cores |-> 1],
   [target_arch |-> "aarch64", neon |-> TRUE, num_cores |-> 2, num_physical_cores |-> 1],
   [target_arch |-> "aarch64", neon |-> FALSE, num_cores |-> 2, num_physical_cores |-> 1],
   [target_arch |-> "other", neon |-> FALSE, num_cores |-> 2, num_physical_cores |-> 1]}

\* CpuFeatures::detect_x86
DetectX86(num_cores, num_physical_cores) ==
  [has_avx512 |-> FALSE, has_avx2 |-> TRUE, has_avx |-> TRUE, has_neon |-> FALSE,
   num_cores |-> num_cores, num_physical_cores |-> num_physical_cores]

\* CpuFeatures::detect_arm
DetectArm(has_neon, num_cores, num_physical_cores) ==
  [has_avx512 |-> FALSE, has_avx2 |-> FALSE, has_avx |-> FALSE, has_neon |-> has_neon,
   num_cores |-> num_cores, num_physical_cores |-> num_physical_cores]

\* CpuFeatures::detect
Detect(host) ==
  IF host.target_arch = "x86_64" THEN DetectX86(host.num_cores, host.num_physical_cores)
  ELSE IF host.target_arch = "aarch64"
       THEN DetectArm(host.neon, host.num_cores, host.num_physical_cores)
       ELSE [has_avx512 |-> FALSE, has_avx2 |-> FALSE, has_avx |-> FALSE,
             has_neon |-> FALSE, num_cores |-> host.num_cores,
             num_physical_cores |-> host.num_physical_cores]

\* CpuFeatures::recommended_simd
RecommendedSimd(self) ==
  IF self.has_avx512 THEN "Avx512"
  ELSE IF self.has_avx2 THEN "Avx2"
  ELSE IF self.has_neon THEN "Neon"
  ELSE "Scalar"

\* the closure of SimdDispatch::init(level)
InitClosure(level, host) ==
  LET cpu_features == Detect(host)
      actual_level == IF level = "Auto" THEN RecommendedSimd(cpu_features) ELSE level
  IN [level |-> actual_level, cpu_features |-> cpu_features]

\* the closure of SimdDispatch::get()
GetClosure(host) ==
  LET cpu_features == Detect(host)
      level == RecommendedSimd(cpu_features)
  IN [level |-> level, cpu_features |-> cpu_features]

\* OnceLock::get_or_init runs the closure of one caller only
MayRun_unlocked(state) == state # "complete"

MayRun(state) == state = "incomplete"

IdleThread == [pc |-> "idle", op |-> "none", level |-> "Auto", ret |-> None,
               waited |-> FALSE]

InitSimd ==
  /\ SIMD_DISPATCH = None
  /\ simd_once = "incomplete"
  /\ simd_thread = [t \in Threads |-> IdleThread]
  /\ simd_host \in Hosts
  /\ simd_first = None
  /\ simd_probe = None
  /\ IdleCache /\ IdleKeys /\ IdleArcs /\ IdlePaged /\ IdleBatch

otherThanSimd == <<cacheVars, keyVars, arcVars, pagedVars, batchVars>>

\* a thread calls SimdDispatch::init(level)
CallInit(t, level) ==
  /\ simd_thread[t].pc = "idle"
  /\ simd_thread' = [simd_thread EXCEPT ![t] =
                       [pc |-> "enter", op |-> "init", level |-> level, ret |-> None,
                        waited |-> FALSE]]
  /\ simd_probe' = None
  /\ UNCHANGED <<SIMD_DISPATCH, simd_once, simd_host, simd_first, otherThanSimd>>

\* a thread calls SimdDispatch::get()
CallGet(t) ==
  /\ simd_thread[t].pc = "idle"
  /\ simd_thread' = [simd_thread EXCEPT ![t] =
                       [pc |-> "enter", op |-> "get", level |-> "Auto", ret |-> None,
                        waited |-> FALSE]]
  /\ simd_probe' = None
  /\ UNCHANGED <<SIMD_DISPATCH, simd_once, simd_host, simd_first, otherThanSimd>>

\* get_or_init finds the value set and returns it
FastPath(t) ==
  /\ simd_thread[t].pc = "enter"
  /\ SIMD_DISPATCH # None
  /\ simd_thread' = [simd_thread EXCEPT ![t].pc = "idle", ![t].ret = SIMD_DISPATCH]
  /\ simd_probe' = None
  /\ UNCHANGED <<SIMD_DISPATCH, simd_once, simd_host, simd_first, otherThanSimd>>

\* get_or_init finds the value unset and nobody setting it: this caller's
\* closure is the one that runs
BeginInit(t) ==
  /\ simd_thread[t].pc = "enter"
  /\ SIMD_DISPATCH = None
  /\ MayRun(simd_once)
  /\ simd_once' = "running"
  /\ simd_thread' = [simd_thread EXCEPT ![t].pc = "running"]
  /\ simd_probe' = None
  /\ UNCHANGED <<SIMD_DISPATCH, simd_host, simd_first, otherThanSimd>>

\* get_or_init finds another caller's closure running and waits for it
Block(t) ==
  /\ simd_thread[t].pc = "enter"
  /\ SIMD_DISPATCH = None
  /\ simd_once = "running"
  /\ simd_thread' = [simd_thread EXCEPT ![t].pc = "waiting"]
  /\ simd_probe' = None
  /\ UNCHANGED <<SIMD_DISPATCH, simd_once, simd_host, simd_first, otherThanSimd>>

\* the closure ends: its value is stored and returned
FinishInit(t) ==
  /\ simd_thread[t].pc = "running"
  /\ LET value == IF simd_thread[t].op = "init"
                  THEN InitClosure(simd_thread[t].level, simd_host)
                  ELSE GetClosure(simd_host)
     IN /\ SIMD_DISPATCH' = value
        /\ simd_first' = IF simd_first = None
                         THEN [value |-> value, op |-> simd_thread[t].op,
                               level |-> simd_thread[t].level]
                         ELSE simd_first
        /\ simd_thread' = [simd_thread EXCEPT ![t].pc = "idle", ![t].ret = value]
  /\ simd_once' = "complete"
  /\ simd_probe' = None
  /\ UNCHANGED <<simd_host, otherThanSimd>>

\* a waiting caller sees the value set and returns it
Wake(t) ==
  /\ simd_thread[t].pc = "waiting"
  /\ simd_once = "complete"
  /\ simd_thread' = [simd_thread EXCEPT ![t].pc = "idle", ![t].ret = SIMD_DISPATCH,
                                        ![t].waited = TRUE]
  /\ simd_probe' = None
  /\ UNCHANGED <<SIMD_DISPATCH, simd_once, simd_host, simd_first, otherThanSimd>>

\* recommended_simd on any CpuFeatures value, called while no init or get is
\* under way
Recommend(features) ==
  /\ features \in CpuFeatures
  /\ \A t \in Threads : simd_thread[t].pc = "idle"
  /\ simd_probe' = [features |-> features, level |-> RecommendedSimd(features)]
  /\ UNCHANGED <<SIMD_DISPATCH, simd_once, simd_thread, simd_host, simd_first, otherThanSimd>>

NextSimd ==
  \/ \E t \in Threads, level \in InitLevels : CallInit(t, level)
  \/ \E t \in Threads : CallGet(t)
  \/ \E t \in Threads : FastPath(t)
  \/ \E t \in Threads : BeginInit(t)
  \/ \E t \in Threads : Block(t)
  \/ \E t \in Threads : FinishInit(t)
  \/ \E t \in Threads : Wake(t)
  \/ \E features \in CpuFeatures : Recommend(features)

SpecSimd == InitSimd /\ [][NextSimd]_vars

\* C22: init-once dispatch. The value is unset until the first init or get
\* sets it and is never other than the value first stored; every init and get
\* that returned, with any level and on any thread, returned that value; one
\* closure runs at a time; the stored level is the level the first call gave,
\* or the recommended level when that call was get or gave Auto, so it is
\* never Auto; recommended_simd prefers AVX-512, then AVX2, then NEON, then
\* Scalar.
C22_InitOnce ==
  /\ (SIMD_DISPATCH = None) <=> (simd_once # "complete")
  /\ (SIMD_DISPATCH = None) <=> (simd_first = None)
  /\ SIMD_DISPATCH # None => SIMD_DISPATCH = simd_first.value
  /\ \A t \in Threads :
       simd_thread[t].ret # None
       => simd_first # None /\ simd_thread[t].ret = simd_first.value
  /\ Cardinality({t \in Threads : simd_thread[t].pc = "running"}) <= 1
  /\ simd_first # None
       => /\ simd_first.value.level # "Auto"
          /\ simd_first.value.cpu_features = Detect(simd_host)
          /\ simd_first.value.level
               = IF simd_first.op = "init" /\ simd_first.level # "Auto"
                 THEN simd_first.level
                 ELSE RecommendedSimd(Detect(simd_host))
  /\ simd_probe # None
       => /\ simd_probe.features.has_avx512 => simd_probe.level = "Avx512"
          /\ simd_probe.level = "Avx2"
               => simd_probe.features.has_avx2 /\ ~simd_probe.features.has_avx512
          /\ simd_probe.level = "Neon"
               => /\ simd_probe.features.has_neon
                  /\ ~simd_probe.features.has_avx2
                  /\ ~simd_probe.features.has_avx512
          /\ simd_probe.level = "Scalar"
               <=> /\ ~simd_probe.features.has_neon
                   /\ ~simd_probe.features.has_avx2
                   /\ ~simd_probe.features.has_avx512
          /\ simd_probe.level # "Auto"

\* first calls raced: init(Auto) stored the recommended level, and an init
\* with another level that waited for it returned that same value
C22_Witness ==
  /\ simd_first # None
  /\ simd_first.op = "init"
  /\ simd_first.level = "Auto"
  /\ \E t \in Threads :
       /\ simd_thread[t].ret = SIMD_DISPATCH
       /\ simd_thread[t].waited
       /\ simd_thread[t].op = "init"
       /\ simd_thread[t].level \notin {"Auto", SIMD_DISPATCH.level}
  /\ simd_probe # None
  /\ simd_probe.features.has_avx512
  /\ simd_probe.features.has_avx2
====
